---- MODULE Spec2Model ----
(***************************************************************************)
(* Luna backend: the recommendation engine (recommendation.py) behind the  *)
(* HTTP endpoints of main.py.                                              *)
(*                                                                         *)
(* Numbers.  The Python code computes in floats; the model computes the    *)
(* same expressions exactly, over the rationals:                            *)
(*   - a score is an integer number of hundredths (76.25 is 7625), which   *)
(*     is what round(x, 2) leaves;                                         *)
(*   - a coordinate is a latitude counted in steps of 100 m along one      *)
(*     meridian (every longitude equal), where the haversine formula is    *)
(*     R * |lat2 - lat1|; a distance is an integer number of such steps.   *)
(* A raised exception is a response whose status names it.                 *)
(*                                                                         *)
(* The booking agent (agent.py) behind POST /bookings/create is the one    *)
(* object with state: booking_counter.  Spec is the recommendation         *)
(* endpoints over every drawn collection; SpecBooking is the booking       *)
(* calls over one collection.  Neither side writes what the other reads.   *)
(***************************************************************************)
EXTENDS Integers, Sequences, FiniteSets, Bags, TLC

VARIABLES
    USERS,      \* mock_data.USERS: the user collection (a list of User)
    VENUES,     \* mock_data.VENUES: the venue collection (a list of Venue)
    request,    \* the request last handled: endpoint, user_id, top_n
    response,   \* what the endpoint answered: status and body
    booking_counter,  \* booking_agent.booking_counter
    inbox,      \* the booking calls accepted and not yet run (a bag)
    handled,    \* what the booking call run last returned or raised
    issued      \* the booking_id of every confirmation, in call order

bookingVars == <<booking_counter, inbox, handled, issued>>
vars == <<USERS, VENUES, request, response, bookingVars>>

------------------------------------------------------------------------------
(* Python built-ins the code uses *)

Max(a, b) == IF a >= b THEN a ELSE b
Min(a, b) == IF a <= b THEN a ELSE b
Abs(a) == IF a >= 0 THEN a ELSE -a

\* set(xs): the set of a list's elements
ToSet(xs) == {xs[i] : i \in 1..Len(xs)}

\* round(num/den) to an integer, ties to even (Python's round); den > 0
Round(num, den) ==
    LET q == num \div den
        r == num % den
    IN  IF 2 * r < den THEN q
        ELSE IF 2 * r > den THEN q + 1
        ELSE IF q % 2 = 0 THEN q ELSE q + 1

\* xs[:n], Python's slice: a negative n counts from the end
Slice(xs, n) ==
    LET stop == IF n >= 0 THEN Min(n, Len(xs)) ELSE Max(Len(xs) + n, 0)
    IN  SubSeq(xs, 1, stop)

\* xs.sort(key=lambda x: x.score, reverse=True): stable, highest score first
RECURSIVE InsertDesc(_, _)
InsertDesc(sorted, x) ==
    IF sorted = <<>> THEN <<x>>
    ELSE IF Head(sorted).score >= x.score
         THEN <<Head(sorted)>> \o InsertDesc(Tail(sorted), x)
         ELSE <<x>> \o sorted

RECURSIVE SortDesc(_)
SortDesc(xs) ==
    IF xs = <<>> THEN <<>>
    ELSE InsertDesc(SortDesc(SubSeq(xs, 1, Len(xs) - 1)), xs[Len(xs)])

------------------------------------------------------------------------------
(* recommendation.py *)

\* Haversine distance, on one meridian, in steps of 100 m
calculate_distance(lat1, lon1, lat2, lon2) == Abs(lat2 - lat1)

price_ranges == [budget |-> 1, moderate |-> 2, upscale |-> 3]

\* line 32 divides by max(len, len): both lists empty raises ZeroDivisionError
CompatibilityRaises(user1, user2) ==
    Max(Len(user1.interests), Len(user2.interests)) = 0

\* distance_score without its floor of 0: 1 - distance/5
distance_score_unclamped(distance) == 50 - distance

\* line 36: distance_score = max(0, 1 - distance/5), in fiftieths
distance_score(distance) == Max(0, 50 - distance)

\* line 41: price_score = max(0, 1 - price_diff/2), in halves
price_score(price_diff) == Max(0, 2 - price_diff)

\* calculate_user_compatibility(user1, user2), when it returns
calculate_user_compatibility(user1, user2) ==
    LET shared_interests == ToSet(user1.interests) \cap ToSet(user2.interests)
        \* interest_score = len(shared_interests) / denom
        denom == Max(Len(user1.interests), Len(user2.interests))
        distance == calculate_distance(user1.latitude, user1.longitude,
                                       user2.latitude, user2.longitude)
        price_diff == Abs(price_ranges[user1.preferred_price_range]
                          - price_ranges[user2.preferred_price_range])
        \* (0.4 i/denom + 0.3 d/50 + 0.3 p/2) * 100, in hundredths, over denom
        final_num == 4000 * Cardinality(shared_interests)
                     + denom * (60 * distance_score(distance)
                                + 1500 * price_score(price_diff))
    IN  [user_id |-> user2.id,
         score |-> Round(final_num, denom),
         shared_interests |-> shared_interests,
         distance_km |-> 10 * distance]

\* A reason line of a recommendation: which f-string, and the number it cites
Reason(kind, n) == [kind |-> kind, n |-> n]

\* user.viewing_history[venue.id] if the key is present, else 0 seconds
ViewTime(user, venue) ==
    IF venue.id \in DOMAIN user.viewing_history
    THEN user.viewing_history[venue.id] ELSE 0

\* The four parts of a venue's score (lines 73-97), in hundredths, each as
\* the numerator of a fraction: over 3, over len(user.interests), over 1, over 3
distance_part(user, venue) ==
    LET distance == calculate_distance(user.latitude, user.longitude,
                                       venue.latitude, venue.longitude)
    IN  250 * Max(0, 30 - distance)         \* 25 * max(0, 1 - distance/3)

interest_part(user, venue) ==
    LET matching_tags == ToSet(user.interests) \cap ToSet(venue.tags)
    IN  IF user.interests # <<>>
        THEN 3500 * Cardinality(matching_tags)   \* 35 * len(matching)/len(interests)
        ELSE 0

price_part(user, venue) ==
    IF venue.price_range = user.preferred_price_range THEN 1500 ELSE 0

view_part(user, venue) ==
    IF venue.id \in DOMAIN user.viewing_history
    THEN 125 * Min(60, user.viewing_history[venue.id])  \* 25 * min(1, view_time/60)
    ELSE 0

\* round(score, 2) of the sum of the four parts
VenueScore(user, venue) ==
    LET n == Max(Len(user.interests), 1)
    IN  Round(n * (distance_part(user, venue) + view_part(user, venue))
              + 3 * interest_part(user, venue)
              + 3 * n * price_part(user, venue),
              3 * n)

\* lines 104-115: user_venue_interest > 0.3, for a venue with tags;
\* view_time/60 + matching/len(tags) > 3/10, cleared of denominators
InterestedInVenue(other_user, venue) ==
    LET other_matching == ToSet(other_user.interests) \cap ToSet(venue.tags)
    IN  10 * (ViewTime(other_user, venue) * Len(venue.tags)
              + 60 * Cardinality(other_matching))
          > 3 * 60 * Len(venue.tags)

\* The pass without its id check: the querying user counts as another user
IsAnyUser(other_user, user) == TRUE

\* line 102: the users the social pass looks at
IsOtherUser(other_user, user) == other_user.id # user.id

OtherUsers(user, all_users) ==
    SelectSeq(all_users, LAMBDA other_user : IsOtherUser(other_user, user))

\* The social pass of one venue raises ZeroDivisionError: at line 112 when
\* the venue has no tags, at line 32 (through line 116) when both users have
\* no interests
VenueRaises(user, venue, all_users) ==
    \E i \in 1..Len(all_users) :
        /\ IsOtherUser(all_users[i], user)
        /\ \/ Len(venue.tags) = 0
           \/ /\ InterestedInVenue(all_users[i], venue)
              /\ CompatibilityRaises(user, all_users[i])

\* The compatibility threshold met already at 40: score >= 40
CompatibleFromThreshold(compatibility) == compatibility.score >= 4000

\* line 117: the compatibility threshold
Compatible(compatibility) == compatibility.score > 4000

\* lines 100-121: interested_users of one venue, appended in list order and sorted
InterestedUsers(user, venue, all_users) ==
    LET interested == SelectSeq(OtherUsers(user, all_users),
                         LAMBDA other_user :
                            /\ InterestedInVenue(other_user, venue)
                            /\ Compatible(calculate_user_compatibility(user, other_user)))
    IN  SortDesc([i \in 1..Len(interested) |->
                     calculate_user_compatibility(user, interested[i])])

\* The reason's count taken over the whole kept list: interested_users[:5]
top_matches_of_five(interested_users) == Slice(interested_users, 5)

\* line 124: top_matches = interested_users[:3]
top_matches(interested_users) == Slice(interested_users, 3)

\* lines 70-132: the VenueRecommendation of one venue
ScoreVenue(user, venue, all_users) ==
    LET distance == calculate_distance(user.latitude, user.longitude,
                                       venue.latitude, venue.longitude)
        matching_tags == ToSet(user.interests) \cap ToSet(venue.tags)
        interested_users == InterestedUsers(user, venue, all_users)
        reasons ==
            (IF distance < 10 THEN <<Reason("distance", distance)>> ELSE <<>>)
            \o (IF matching_tags # {}
                THEN <<Reason("interests", Cardinality(matching_tags))>> ELSE <<>>)
            \o (IF venue.price_range = user.preferred_price_range
                THEN <<Reason("budget", 0)>> ELSE <<>>)
            \o (IF venue.id \in DOMAIN user.viewing_history
                THEN <<Reason("viewed", user.viewing_history[venue.id])>> ELSE <<>>)
            \o (IF interested_users # <<>>
                THEN <<Reason("friends", Len(top_matches(interested_users)))>> ELSE <<>>)
    IN  [venue |-> venue,
         score |-> VenueScore(user, venue),
         reasons |-> reasons,
         interested_users |-> Slice(interested_users, 5)]

\* xs reversed
Reversed(xs) == [i \in 1..Len(xs) |-> xs[Len(xs) + 1 - i]]

\* recommend_venues sorting without reverse=True: lowest score first
recommend_venues_ascending(user, all_venues, all_users, top_n) ==
    LET recommendations == [v \in 1..Len(all_venues) |->
                               ScoreVenue(user, all_venues[v], all_users)]
    IN  Slice(Reversed(SortDesc(recommendations)), top_n)

RecommendVenuesRaises(user, all_venues, all_users) ==
    \E v \in 1..Len(all_venues) : VenueRaises(user, all_venues[v], all_users)

\* recommend_venues(user, all_venues, all_users, top_n), when it returns
recommend_venues(user, all_venues, all_users, top_n) ==
    LET recommendations == [v \in 1..Len(all_venues) |->
                               ScoreVenue(user, all_venues[v], all_users)]
    IN  Slice(SortDesc(recommendations), top_n)

RecommendPeopleRaises(user, all_users) ==
    \E i \in 1..Len(all_users) :
        /\ IsOtherUser(all_users[i], user)
        /\ CompatibilityRaises(user, all_users[i])

\* recommend_people(user, all_users, top_n), when it returns
recommend_people(user, all_users, top_n) ==
    LET others == OtherUsers(user, all_users)
        compatibilities == [i \in 1..Len(others) |->
                               calculate_user_compatibility(user, others[i])]
    IN  Slice(SortDesc(compatibilities), top_n)

------------------------------------------------------------------------------
(* models.py and the inputs *)

Tags == {"art", "coffee"}
Tiers == {"budget", "moderate", "upscale"}

\* The longest interest list and tag list drawn
MaxInterests == 2
\* The largest user collection drawn
MaxUsers == 7
\* The largest venue collection drawn
MaxVenues == 3
\* The largest top_n asked for below the transport layer's cap
MaxTopN == 3

UserIds == <<"user1", "user2", "user3", "user4", "user5",
             "user6", "user7", "user8", "user9">>
VenueIds == <<"venue1", "venue2", "venue3", "venue4", "venue5">>

\* List[str] over Tags: every list of at most n entries, duplicates included
Lists(n) == UNION {[1..k -> Tags] : k \in 0..n}

\* Latitudes: 0 km, 2 km and 6 km up the meridian
Positions == {0, 20, 60}

\* viewing_history: a dict; no entry, or venue1 viewed for so many seconds
\* (the dict's values are not validated: a negative duration is accepted)
NoHistory == [v \in {} |-> 0]
Viewed(venue_id, seconds) == [v \in {venue_id} |-> seconds]
Histories == {NoHistory} \cup {Viewed("venue1", s) : s \in {-30, 18, 45, 90}}

\* models.User
User(id, latitude, interests, tier, history) ==
    [id |-> id, latitude |-> latitude, longitude |-> 0, interests |-> interests,
     preferred_price_range |-> tier, viewing_history |-> history]

\* models.Venue
Venue(id, latitude, tier, tags) ==
    [id |-> id, latitude |-> latitude, longitude |-> 0, price_range |-> tier,
     tags |-> tags]

Data(users, venues) == [users |-> users, venues |-> venues]

\* Two users, every position, interest list and price tier; no venue
PairInputs ==
    {Data(<<User("user1", p1, i1, t1, NoHistory), User("user2", p2, i2, t2, NoHistory)>>,
          <<>>) :
        p1 \in {0}, p2 \in Positions, i1 \in Lists(MaxInterests),
        i2 \in Lists(MaxInterests), t1 \in Tiers, t2 \in Tiers}

\* One user and one venue: every combination of the four parts of the score
VenueInputs ==
    {Data(<<User("user1", 0, i, "moderate", h)>>, <<Venue("venue1", p, t, tags)>>) :
        i \in Lists(MaxInterests), h \in Histories, p \in Positions,
        t \in {"budget", "moderate"}, tags \in Lists(MaxInterests)}

\* Two users and one venue: the other user on both sides of both thresholds
SocialInputs ==
    {Data(<<User("user1", 0, i1, "moderate", NoHistory), User("user2", p2, i2, t2, h2)>>,
          <<Venue("venue1", 0, "moderate", tags)>>) :
        i1 \in {<<>>, <<"art">>, <<"art", "coffee">>}, p2 \in {0, 60},
        i2 \in Lists(1), t2 \in Tiers, h2 \in Histories,
        tags \in {<<>>, <<"art">>, <<"art", "coffee">>}}

\* One user and up to MaxVenues venues, near and far, matching and not
ShelfInputs ==
    {Data(<<User("user1", 0, <<"art">>, "moderate", NoHistory)>>,
          [v \in 1..n |-> Venue(VenueIds[v], lat[v], "moderate", <<tag[v]>>)]) :
        <<n, lat, tag>> \in UNION {{n} \X [1..n -> Positions] \X [1..n -> Tags] :
                                   n \in 0..MaxVenues}}

\* A crowd: the first user and MaxUsers - 1 others around one venue.  Each other
\* user is keen (interested and compatible), cold (compatible, not interested)
\* or far (interested, compatibility score exactly 40); the keen ones stand at
\* different distances, so their scores differ and are not in list order
CrowdLatitude(i) == 3 * ((4 * i) % 9)
CrowdUser(kind, i) ==
    CASE kind = "keen" -> User(UserIds[i], CrowdLatitude(i), <<"art">>, "budget",
                               Viewed("venue1", 45))
      [] kind = "cold" -> User(UserIds[i], CrowdLatitude(i), <<"coffee">>, "budget",
                               NoHistory)
      [] kind = "far"  -> User(UserIds[i], 60, <<"art">>, "upscale", NoHistory)
CrowdInputs ==
    {Data(<<User("user1", 0, <<"art">>, "budget", NoHistory)>>
            \o [i \in 1..(MaxUsers - 1) |-> CrowdUser(kinds[i], i + 1)],
          <<Venue("venue1", 0, "budget", <<"art">>)>>) :
        kinds \in [1..(MaxUsers - 1) -> {"keen", "cold", "far"}]}

Inputs == PairInputs \cup VenueInputs \cup SocialInputs \cup ShelfInputs \cup CrowdInputs

------------------------------------------------------------------------------
(* main.py: the endpoints *)

\* The transport layer's cap on top_n for venue queries (line 98)
MAX_TOP_N == 20

TopNs == (-1..MaxTopN) \cup {MAX_TOP_N + 1}

Request(endpoint, user_id, other_id, top_n) ==
    [endpoint |-> endpoint, user_id |-> user_id, other_id |-> other_id, top_n |-> top_n]

Response(status, body) == [status |-> status, body |-> body]

\* next((u for u in USERS if u.id == user_id), None)
KnownUser(user_id) == \E i \in 1..Len(USERS) : USERS[i].id = user_id
FindUser(user_id) ==
    USERS[CHOOSE i \in 1..Len(USERS) :
             /\ USERS[i].id = user_id
             /\ \A j \in 1..(i - 1) : USERS[j].id # user_id]

RequestIds == ToSet(SubSeq(UserIds, 1, Len(USERS))) \cup {"nobody"}

\* booking_agent = BookingAgent() (main.py line 16, agent.py lines 20-21)
InitAgent ==
    /\ booking_counter = 1000
    /\ inbox = EmptyBag
    /\ handled = [status |-> "none"]
    /\ issued = <<>>

Init ==
    /\ \E d \in Inputs : USERS = d.users /\ VENUES = d.venues
    /\ request = Request("none", "", "", 0)
    /\ response = Response("none", <<>>)
    /\ InitAgent

\* No request is being handled: the server waits for the next one
Idle == request.endpoint = "none"

\* The top_n the endpoint hands to recommend_venues (lines 98-99)
ClampTopN(top_n) == IF top_n > MAX_TOP_N THEN MAX_TOP_N ELSE top_n

\* GET /recommendations/venues/{user_id}
get_venue_recommendations(user_id, top_n) ==
    /\ Idle
    /\ request' = Request("venues", user_id, "", top_n)
    /\ response' =
         IF ~KnownUser(user_id) THEN Response("404", <<>>)
         ELSE IF RecommendVenuesRaises(FindUser(user_id), VENUES, USERS)
              THEN Response("ZeroDivisionError", <<>>)
              ELSE Response("ok", recommend_venues(FindUser(user_id), VENUES, USERS,
                                                   ClampTopN(top_n)))
    /\ UNCHANGED <<USERS, VENUES, bookingVars>>

\* GET /recommendations/people/{user_id}
get_people_recommendations(user_id, top_n) ==
    /\ Idle
    /\ request' = Request("people", user_id, "", top_n)
    /\ response' =
         IF ~KnownUser(user_id) THEN Response("404", <<>>)
         ELSE IF RecommendPeopleRaises(FindUser(user_id), USERS)
              THEN Response("ZeroDivisionError", <<>>)
              ELSE Response("ok", recommend_people(FindUser(user_id), USERS, top_n))
    /\ UNCHANGED <<USERS, VENUES, bookingVars>>

\* The scoring primitive called on its own (spec section 6): user1, user2 of USERS
compatibility(user_id, other_id) ==
    /\ Idle
    /\ KnownUser(user_id) /\ KnownUser(other_id)
    /\ request' = Request("compatibility", user_id, other_id, 0)
    /\ response' =
         IF CompatibilityRaises(FindUser(user_id), FindUser(other_id))
         THEN Response("ZeroDivisionError", <<>>)
         ELSE Response("ok", <<calculate_user_compatibility(FindUser(user_id),
                                                            FindUser(other_id))>>)
    /\ UNCHANGED <<USERS, VENUES, bookingVars>>

\* The handler returns: the response goes out and the server waits again
Return ==
    /\ ~Idle
    /\ request' = Request("none", "", "", 0)
    /\ response' = Response("none", <<>>)
    /\ UNCHANGED <<USERS, VENUES, bookingVars>>

Next ==
    \/ \E user_id \in RequestIds, top_n \in TopNs :
          get_venue_recommendations(user_id, top_n)
    \/ \E user_id \in RequestIds, top_n \in TopNs :
          get_people_recommendations(user_id, top_n)
    \/ \E user_id \in RequestIds, other_id \in RequestIds :
          compatibility(user_id, other_id)
    \/ Return

Spec == Init /\ [][Next]_vars

------------------------------------------------------------------------------
(* agent.py and POST /bookings/create *)

\* The most booking calls run in one behaviour
MaxBookings == 3
\* The most booking calls accepted and waiting to run at once
MaxInflight == 2

\* f"LUNA-{self.booking_counter}": the prefix and the number printed after it
BookingId(counter) == <<"LUNA-", counter>>

\* generate_confirmation_code(): 8 random characters; two of the outcomes
ConfirmationCodes == {"A1B2C3D4", "ZZZZ9999"}

\* _estimate_cost(price_range)
estimate_cost(price_range) ==
    CASE price_range = "budget" -> "$10-20"
      [] price_range = "moderate" -> "$25-50"
      [] price_range = "upscale" -> "$60-150"
      [] OTHER -> "$30-60"

\* A call on its way to the agent: a BookingRequest (date and time left out)
\* for create_booking, a booking_id for the other three methods
BookingCall(method, venue_id, user_ids, party_size, booking_id) ==
    [method |-> method, venue_id |-> venue_id, user_ids |-> user_ids,
     party_size |-> party_size, booking_id |-> booking_id]

\* One user and one venue to book
BookingInputs ==
    {Data(<<User("user1", 0, <<"art">>, "moderate", NoHistory)>>,
          <<Venue("venue1", 0, "moderate", <<"art">>)>>)}

BookingVenueIds == ToSet(SubSeq(VenueIds, 1, Len(VENUES))) \cup {"nowhere"}

\* BookingRequest bodies: known and unknown venue, up to two known or unknown
\* users, party_size 1 or 2
CreateCalls ==
    {BookingCall("create_booking", v, u, p, BookingId(0)) :
        v \in BookingVenueIds,
        u \in UNION {[1..k -> RequestIds] : k \in 0..2},
        p \in {1, 2}}

\* The other methods, on the first booking's id and on an id never issued
OtherCalls ==
    {BookingCall(m, "", <<>>, 0, BookingId(n)) :
        m \in {"cancel_booking", "modify_booking", "get_booking_status"},
        n \in {1001, 9999}}

InitBooking ==
    /\ \E d \in BookingInputs : USERS = d.users /\ VENUES = d.venues
    /\ request = Request("none", "", "", 0)
    /\ response = Response("none", <<>>)
    /\ InitAgent

\* HTTPException(status_code, detail): which f-string, and the value it cites
HTTPException(status_code, what, value) ==
    [status |-> status_code, detail |-> <<what, value>>]

KnownVenue(venue_id) == \E v \in 1..Len(VENUES) : VENUES[v].id = venue_id
FindVenue(venue_id) ==
    VENUES[CHOOSE v \in 1..Len(VENUES) :
              /\ VENUES[v].id = venue_id
              /\ \A w \in 1..(v - 1) : VENUES[w].id # venue_id]

\* The endpoint's checks with the party size compared before the users are looked up
booking_rejection_size_first(call) ==
    IF ~KnownVenue(call.venue_id)
    THEN HTTPException("404", "Venue not found", call.venue_id)
    ELSE IF call.party_size # Len(call.user_ids)
    THEN HTTPException("400", "Party size doesn't match number of users",
                       <<call.party_size, Len(call.user_ids)>>)
    ELSE IF \E i \in 1..Len(call.user_ids) : ~KnownUser(call.user_ids[i])
    THEN HTTPException("404", "User not found",
             call.user_ids[CHOOSE i \in 1..Len(call.user_ids) :
                              /\ ~KnownUser(call.user_ids[i])
                              /\ \A j \in 1..(i - 1) : KnownUser(call.user_ids[j])])
    ELSE [status |-> "pass"]

\* main.py lines 166-181: the HTTPException the endpoint raises, or "pass"
booking_rejection(call) ==
    IF ~KnownVenue(call.venue_id)
    THEN HTTPException("404", "Venue not found", call.venue_id)
    ELSE IF \E i \in 1..Len(call.user_ids) : ~KnownUser(call.user_ids[i])
    THEN HTTPException("404", "User not found",
             call.user_ids[CHOOSE i \in 1..Len(call.user_ids) :
                              /\ ~KnownUser(call.user_ids[i])
                              /\ \A j \in 1..(i - 1) : KnownUser(call.user_ids[j])])
    ELSE IF call.party_size # Len(call.user_ids)
    THEN HTTPException("400", "Party size doesn't match number of users",
                       <<call.party_size, Len(call.user_ids)>>)
    ELSE [status |-> "pass"]

\* BookingAgent.create_booking with the increment kept in a local: the
\* attribute stays as it was
agent_create_booking_local_counter(counter, call, venue, confirmation_code) ==
    LET local == counter + 1
        booking_id == BookingId(local)
    IN  [booking_counter |-> counter,
         confirmation |->
            [booking_id |-> booking_id,
             status |-> "confirmed",
             confirmation_code |-> confirmation_code,
             details |-> [booking_id |-> booking_id,
                          venue_id |-> call.venue_id,
                          party_size |-> call.party_size,
                          user_ids |-> call.user_ids,
                          status |-> "confirmed",
                          estimated_cost_per_person |-> estimate_cost(venue.price_range),
                          group_discount_applied |-> Len(call.user_ids) >= 4]]]

\* BookingAgent.create_booking (agent.py lines 40-95): the counter it leaves
\* and the BookingConfirmation it returns (venue_name, the timestamp and the
\* simulated integrations left out).  The body holds no await: it runs whole.
agent_create_booking(counter, call, venue, confirmation_code) ==
    LET incremented == counter + 1                \* self.booking_counter += 1
        booking_id == BookingId(incremented)
    IN  [booking_counter |-> incremented,
         confirmation |->
            [booking_id |-> booking_id,
             status |-> "confirmed",
             confirmation_code |-> confirmation_code,
             details |-> [booking_id |-> booking_id,
                          venue_id |-> call.venue_id,
                          party_size |-> call.party_size,
                          user_ids |-> call.user_ids,
                          status |-> "confirmed",
                          estimated_cost_per_person |-> estimate_cost(venue.price_range),
                          group_discount_applied |-> Len(call.user_ids) >= 4]]]

Waiting(call) == BagIn(call, inbox)
Taken(call) == inbox (-) SetToBag({call})

\* A client sends a call; the event loop holds it until its handler runs
accept(call) ==
    /\ BagCardinality(inbox) < MaxInflight
    /\ call.method = "create_booking"
       => booking_counter - 1000
          + BagCardinality(inbox) < MaxBookings
    /\ inbox' = inbox (+) SetToBag({call})
    /\ UNCHANGED <<USERS, VENUES, request, response, booking_counter, handled, issued>>

\* POST /bookings/create (main.py lines 137-185): the handler of one waiting call
create_booking(call) ==
    /\ Waiting(call) /\ call.method = "create_booking"
    /\ inbox' = Taken(call)
    /\ IF booking_rejection(call).status # "pass"
       THEN /\ handled' = booking_rejection(call)
            /\ UNCHANGED <<booking_counter, issued>>
       ELSE \E confirmation_code \in ConfirmationCodes :
               LET done == agent_create_booking(booking_counter, call,
                                                FindVenue(call.venue_id),
                                                confirmation_code)
               IN  /\ booking_counter' = done.booking_counter
                   /\ handled' = done.confirmation
                   /\ issued' = Append(issued, done.confirmation.booking_id)
    /\ UNCHANGED <<USERS, VENUES, request, response>>

\* BookingAgent.cancel_booking (agent.py lines 106-123)
cancel_booking(call) ==
    /\ Waiting(call) /\ call.method = "cancel_booking"
    /\ inbox' = Taken(call)
    /\ handled' = [status |-> "cancelled", booking_id |-> call.booking_id,
                   refund_status |-> "processed", notifications_sent |-> TRUE]
    /\ UNCHANGED <<USERS, VENUES, request, response, booking_counter, issued>>

\* BookingAgent.modify_booking (agent.py lines 125-138)
modify_booking(call) ==
    /\ Waiting(call) /\ call.method = "modify_booking"
    /\ inbox' = Taken(call)
    /\ \E confirmation_code \in ConfirmationCodes :
          handled' = [status |-> "modified", booking_id |-> call.booking_id,
                      new_confirmation_code |-> confirmation_code,
                      notifications_sent |-> TRUE]
    /\ UNCHANGED <<USERS, VENUES, request, response, booking_counter, issued>>

\* BookingAgent.get_booking_status (agent.py lines 140-146)
get_booking_status(call) ==
    /\ Waiting(call) /\ call.method = "get_booking_status"
    /\ inbox' = Taken(call)
    /\ handled' = [status |-> "confirmed", booking_id |-> call.booking_id,
                   checked |-> TRUE]
    /\ UNCHANGED <<USERS, VENUES, request, response, booking_counter, issued>>

NextBooking ==
    \/ \E call \in CreateCalls \cup OtherCalls : accept(call)
    \/ \E call \in CreateCalls : create_booking(call)
    \/ \E call \in OtherCalls : cancel_booking(call)
    \/ \E call \in OtherCalls : modify_booking(call)
    \/ \E call \in OtherCalls : get_booking_status(call)

SpecBooking == InitBooking /\ [][NextBooking]_vars

------------------------------------------------------------------------------
(* What a handled request was about *)

Handling(endpoint) == request.endpoint = endpoint
Returned(endpoint) == request.endpoint = endpoint /\ response.status = "ok"

\* The querying user (user, user1) and, for the primitive, the second user
Asker == FindUser(request.user_id)
Other == FindUser(request.other_id)

\* The asker's distance and price-tier difference to a user
DistanceTo(u) == calculate_distance(Asker.latitude, Asker.longitude,
                                    u.latitude, u.longitude)
PriceDiffTo(u) == Abs(price_ranges[Asker.preferred_price_range]
                      - price_ranges[u.preferred_price_range])

\* Every CompatibilityScore in the response
ReturnedScores ==
    IF response.status # "ok" THEN {}
    ELSE IF Handling("venues")
         THEN UNION {ToSet(response.body[i].interested_users) :
                        i \in 1..Len(response.body)}
         ELSE ToSet(response.body)

NonIncreasing(xs) == \A i \in 1..(Len(xs) - 1) : xs[i].score >= xs[i + 1].score

------------------------------------------------------------------------------
(* C1: calculate_user_compatibility on two users with no interests returns,
   with the interest ratio taken as 0: the score is
   100 * (0.3 * distance score + 0.3 * price score). *)
C1_EmptyInterestsScoreZeroRatio ==
    (Handling("compatibility") /\ Asker.interests = <<>> /\ Other.interests = <<>>)
    => /\ response.status = "ok"
       /\ response.body[1].score = 60 * distance_score(DistanceTo(Other))
                                   + 1500 * price_score(PriceDiffTo(Other))

(* C2: recommend_venues on a collection holding a venue without tags, with a
   user other than the querying one, returns, and that venue is among the
   scored recommendations (when top_n does not cut it off). *)
C2_UntaggedVenueScored ==
    (/\ Handling("venues") /\ KnownUser(request.user_id)
     /\ \E i \in 1..Len(USERS) : USERS[i].id # request.user_id)
    => \A v \in 1..Len(VENUES) :
          VENUES[v].tags = <<>>
          => /\ response.status = "ok"
             /\ ClampTopN(request.top_n) >= Len(VENUES)
                => \E i \in 1..Len(response.body) : response.body[i].venue = VENUES[v]

(* C3: every VenueRecommendation returned has a score within 0..100, whatever
   the querying user's recorded view durations. *)
C3_VenueScoreInRange ==
    Returned("venues")
    => \A i \in 1..Len(response.body) :
          response.body[i].score >= 0 /\ response.body[i].score <= 10000

(* C4: every CompatibilityScore returned has a score within 0..100; for two
   users of whom one at least lists an interest, calculate_user_compatibility
   returns, and the interest ratio, the distance score and the price score
   each lie within 0..1. *)
C4_CompatibilityScoreInRange ==
    /\ \A c \in ReturnedScores : c.score >= 0 /\ c.score <= 10000
    /\ (Handling("compatibility") /\ (Asker.interests # <<>> \/ Other.interests # <<>>))
       => /\ response.status = "ok"
          /\ Cardinality(response.body[1].shared_interests)
                <= Max(Len(Asker.interests), Len(Other.interests))
          /\ distance_score(DistanceTo(Other)) \in 0..50
          /\ price_score(PriceDiffTo(Other)) \in 0..2

\* C4's case: a returned score at each end of the range, one list empty
C4_Witness ==
    /\ Returned("compatibility")
    /\ Asker.interests = <<>> /\ Other.interests # <<>>
    /\ DistanceTo(Other) > 50
    /\ response.body[1].score = 0

(* C5: truncation law.  recommend_venues(u, V, U, n) returns min(n, |V|)
   entries (none for a negative n), and they are the first n entries of
   recommend_venues(u, V, U, |V|). *)
C5_TruncationLaw ==
    Returned("venues")
    => LET n == ClampTopN(request.top_n)
           full == recommend_venues(Asker, VENUES, USERS, Len(VENUES))
       IN  /\ Len(response.body) = Max(0, Min(n, Len(VENUES)))
           /\ response.body = SubSeq(full, 1, Min(n, Len(full)))

(* C6: with top_n = |V| the list returned holds every venue of the collection
   exactly once, and its scores do not increase from first to last. *)
C6_FullListIsSortedPermutation ==
    (Returned("venues") /\ ClampTopN(request.top_n) = Len(VENUES))
    => /\ Len(response.body) = Len(VENUES)
       /\ \A v \in 1..Len(VENUES) :
             Cardinality({i \in 1..Len(response.body) :
                             response.body[i].venue = VENUES[v]}) = 1
       /\ NonIncreasing(response.body)

\* C6's case: three venues, the best one last in the collection, two of them tied
C6_Witness ==
    /\ Returned("venues") /\ request.top_n = Len(VENUES) /\ Len(VENUES) = 3
    /\ response.body[1].venue = VENUES[3]
    /\ response.body[1].score > response.body[2].score
    /\ response.body[2].score = response.body[3].score

(* C7: for a user u who lists an interest, calculate_user_compatibility(u, u)
   has score 100, every interest of u shared, distance 0 (and so price
   difference 0). *)
C7_SelfCompatibilityIsFull ==
    (Handling("compatibility") /\ request.user_id = request.other_id
     /\ Asker.interests # <<>>)
    => /\ response.status = "ok"
       /\ response.body[1].score = 10000
       /\ response.body[1].shared_interests = ToSet(Asker.interests)
       /\ response.body[1].distance_km = 0

(* C8: interested_users of every scored venue is the (at most 5) best, best
   first, of the CompatibilityScores of the other users whose signal
   view-seconds/60 + |interests & tags|/|tags| is above 0.3 and whose
   compatibility score is above 40: nobody failing a threshold is in it, and
   nobody left out beats somebody in it. *)
C8_Signal(u, venue) ==
    LET seconds == IF venue.id \in DOMAIN u.viewing_history
                   THEN u.viewing_history[venue.id] ELSE 0
        overlap == Cardinality(ToSet(u.interests) \cap ToSet(venue.tags))
    IN  \* seconds/60 + overlap/|tags| > 3/10
        10 * (seconds * Len(venue.tags) + 60 * overlap) > 3 * 60 * Len(venue.tags)

C8_Qualifying(venue) ==
    {j \in 1..Len(USERS) :
        /\ USERS[j].id # request.user_id
        /\ C8_Signal(USERS[j], venue)
        /\ calculate_user_compatibility(Asker, USERS[j]).score > 4000}

C8_InterestedUsersAreTheBest ==
    Returned("venues")
    => \A i \in 1..Len(response.body) :
          LET iu == response.body[i].interested_users
              Q == C8_Qualifying(response.body[i].venue)
          IN  /\ Len(iu) = Min(5, Cardinality(Q))
              /\ NonIncreasing(iu)
              /\ \A k \in 1..Len(iu) :
                    \E j \in Q : iu[k] = calculate_user_compatibility(Asker, USERS[j])
              /\ \A k, l \in 1..Len(iu) : k # l => iu[k].user_id # iu[l].user_id
              /\ \A j \in Q :
                    (\A k \in 1..Len(iu) : iu[k].user_id # USERS[j].id)
                    => \A k \in 1..Len(iu) :
                          iu[k].score
                            >= calculate_user_compatibility(Asker, USERS[j]).score

\* C8's case: six users qualify and five are kept
C8_Witness ==
    /\ Returned("venues") /\ Len(response.body) = 1
    /\ Cardinality(C8_Qualifying(response.body[1].venue)) = 6
    /\ Len(response.body[1].interested_users) = 5

\* C8's other case: a user fails each threshold and two others are kept
C8_WitnessThresholds ==
    /\ Returned("venues") /\ Len(response.body) = 1
    /\ Len(response.body[1].interested_users) = 2
    /\ \E j \in 1..Len(USERS) :
          /\ USERS[j].id # request.user_id
          /\ ~C8_Signal(USERS[j], response.body[1].venue)
    /\ \E j \in 1..Len(USERS) :
          /\ USERS[j].id # request.user_id
          /\ C8_Signal(USERS[j], response.body[1].venue)
          /\ calculate_user_compatibility(Asker, USERS[j]).score = 4000

(* C9: no CompatibilityScore a recommender returns is about the querying
   user: neither an entry of recommend_people nor an entry of any
   interested_users list of recommend_venues has user_id = user.id. *)
C9_NeverTheQueryingUser ==
    (Returned("venues") \/ Returned("people"))
    => \A c \in ReturnedScores : c.user_id # request.user_id

\* C9's case: both users of a pair are alike, and the other one is recommended
C9_Witness ==
    /\ Returned("people") /\ Len(USERS) = 2
    /\ USERS[1].interests = USERS[2].interests
    /\ Len(response.body) = 1 /\ response.body[1].score = 10000

(* C10: recommend_people returns min(top_n, number of other users) entries
   (none for a negative top_n), each a different other user, scores not
   increasing, and no user left out beats a user returned. *)
C10_TopPeople ==
    Returned("people")
    => LET others == {j \in 1..Len(USERS) : USERS[j].id # request.user_id}
           body == response.body
       IN  /\ Len(body) = Max(0, Min(request.top_n, Cardinality(others)))
           /\ \A k \in 1..Len(body) : \E j \in others : body[k].user_id = USERS[j].id
           /\ \A k, l \in 1..Len(body) : k # l => body[k].user_id # body[l].user_id
           /\ NonIncreasing(body)
           /\ \A j \in others :
                 (\A k \in 1..Len(body) : body[k].user_id # USERS[j].id)
                 => \A k \in 1..Len(body) :
                       body[k].score
                         >= calculate_user_compatibility(Asker, USERS[j]).score

(* C11: for a venue with k interested compatible users, no "compatible
   friends interested" reason is given when k = 0; when k > 0 exactly one is
   given, as the last reason, and it states min(k, 3), while interested_users
   holds min(k, 5) entries. *)
C11_FriendsReasonCountsThree ==
    Returned("venues")
    => \A i \in 1..Len(response.body) :
          LET reasons == response.body[i].reasons
              k == Cardinality(C8_Qualifying(response.body[i].venue))
              friends == {r \in 1..Len(reasons) : reasons[r].kind = "friends"}
          IN  /\ k = 0 => friends = {}
              /\ k > 0 => /\ friends = {Len(reasons)}
                          /\ reasons[Len(reasons)].n = Min(k, 3)
              /\ Len(response.body[i].interested_users) = Min(k, 5)

\* C11's case: six users qualify, five are listed, the last of several reasons says 3
C11_Witness ==
    /\ Returned("venues") /\ Len(response.body) = 1
    /\ Cardinality(C8_Qualifying(response.body[1].venue)) = 6
    /\ Len(response.body[1].interested_users) = 5
    /\ Len(response.body[1].reasons) > 1
    /\ response.body[1].reasons[Len(response.body[1].reasons)] = Reason("friends", 3)

(* C12: booking identifiers are unique.  Over every order in which the
   waiting calls run, each create_booking that reaches the agent sees its own
   booking_counter value: the ids returned are LUNA-1001, LUNA-1002, ... in
   call order, pairwise different and strictly increasing; cancel_booking,
   modify_booking and get_booking_status leave booking_counter alone, so it
   always stands at 1000 plus the number of ids issued. *)
C12_BookingIdsUniqueAscending ==
    /\ booking_counter = 1000 + Len(issued)
    /\ \A i \in 1..Len(issued) : issued[i][1] = "LUNA-"
    /\ Len(issued) > 0 => issued[1][2] = 1001
    /\ \A i, j \in 1..Len(issued) :
          i < j => issued[i] # issued[j] /\ issued[i][2] < issued[j][2]

\* C12's case: two bookings made, a cancel_booking ran last, and a third
\* request that will pass the checks is waiting
C12_Witness ==
    /\ Len(issued) = 2
    /\ handled.status = "cancelled"
    /\ \E call \in CreateCalls :
          Waiting(call) /\ booking_rejection(call).status = "pass"

(* C13: the create_booking endpoint rejects before it reaches the agent, in
   this order: unknown venue_id, 404; then an unknown user id, 404; then a
   party_size unlike the number of user_ids, 400.  A rejected request leaves
   booking_counter as it was; a request passing the three checks is answered
   "confirmed" and moves booking_counter up by exactly 1. *)
C13_Expected(call) ==
    IF \A v \in 1..Len(VENUES) : VENUES[v].id # call.venue_id
    THEN <<"404", "Venue not found">>
    ELSE IF \E i \in 1..Len(call.user_ids) :
               \A u \in 1..Len(USERS) : USERS[u].id # call.user_ids[i]
    THEN <<"404", "User not found">>
    ELSE IF call.party_size # Len(call.user_ids)
    THEN <<"400", "Party size doesn't match number of users">>
    ELSE <<"confirmed", "">>

C13_RejectedBeforeTheAgent ==
    [][\A call \in CreateCalls :
          create_booking(call)
          => IF C13_Expected(call)[1] = "confirmed"
             THEN /\ handled'.status = "confirmed"
                  /\ booking_counter' = booking_counter + 1
             ELSE /\ handled'.status = C13_Expected(call)[1]
                  /\ handled'.detail[1] = C13_Expected(call)[2]
                  /\ booking_counter' = booking_counter
                  /\ issued' = issued]_vars

\* C13's case: a booking was made, and after it a request with a known venue,
\* known users and the wrong party size was rejected without using an id
C13_Witness ==
    /\ handled.status = "400"
    /\ booking_counter = 1001 /\ issued = <<BookingId(1001)>>

====
